---------------------------- MODULE Spec2Model ----------------------------
(*************************************************************************)
(* CareCast weather bot (src/main.py): the city extraction done by the   *)
(* weather handler, the per-user session map temp_data, the handler      *)
(* registration order and the handlers' replies.                         *)
(*                                                                       *)
(* Text is modelled at character level: a Python str is a sequence of    *)
(* one-character strings, so that lower(), split(), join(), title() and  *)
(* capitalize() are computed as Python computes them.                    *)
(*************************************************************************)
EXTENDS Integers, Sequences, FiniteSets, TLC

(*************************************************************************)
(* Bounds of the model.                                                  *)
(*************************************************************************)
\* number of chat users (chat ids 1..NumUsers)
NumUsers == 2
\* longest sequence of vocabulary tokens appended to a lead-in phrase
MaxTail == 3

Users == 1..NumUsers

(*************************************************************************)
(* Python str operations.                                                *)
(*************************************************************************)
LowerAlpha ==
    <<"a","b","c","d","e","f","g","h","i","j","k","l","m",
      "n","o","p","q","r","s","t","u","v","w","x","y","z">>

UpperAlpha ==
    <<"A","B","C","D","E","F","G","H","I","J","K","L","M",
      "N","O","P","Q","R","S","T","U","V","W","X","Y","Z">>

IsLower(c) == \E i \in 1..26 : LowerAlpha[i] = c

IsUpper(c) == \E i \in 1..26 : UpperAlpha[i] = c

\* str.isalpha() for one character: a cased letter
IsCased(c) == IsLower(c) \/ IsUpper(c)

\* the whitespace str.split() splits on (messages hold no tab or newline)
IsSpace(c) == c = " "

ToLower(c) ==
    IF IsUpper(c) THEN LowerAlpha[CHOOSE i \in 1..26 : UpperAlpha[i] = c] ELSE c

ToUpper(c) ==
    IF IsLower(c) THEN UpperAlpha[CHOOSE i \in 1..26 : LowerAlpha[i] = c] ELSE c

\* str.lower()
lower(s) == [i \in 1..Len(s) |-> ToLower(s[i])]

\* str.title() left out: the text stays as it is
title_Omitted(s) == s

\* str.title(): a character that follows a cased character is lowercased,
\* every other character is uppercased (so a letter after "'" or after a
\* digit is uppercased too)
title(s) ==
    [i \in 1..Len(s) |->
        IF i > 1 /\ IsCased(s[i-1]) THEN ToLower(s[i]) ELSE ToUpper(s[i])]

\* str.capitalize(): first character uppercased, all the others lowercased
capitalize(s) ==
    [i \in 1..Len(s) |-> IF i = 1 THEN ToUpper(s[i]) ELSE ToLower(s[i])]

RECURSIVE SplitFrom(_, _, _)
SplitFrom(s, i, cur) ==
    IF i > Len(s)
    THEN IF cur = <<>> THEN <<>> ELSE <<cur>>
    ELSE IF IsSpace(s[i])
         THEN IF cur = <<>>
              THEN SplitFrom(s, i + 1, <<>>)
              ELSE <<cur>> \o SplitFrom(s, i + 1, <<>>)
         ELSE SplitFrom(s, i + 1, Append(cur, s[i]))

\* str.split(): the maximal runs of non-whitespace characters, in order
split(s) == SplitFrom(s, 1, <<>>)

RECURSIVE join(_, _)
\* sep.join(words)
join(sep, words) ==
    IF words = <<>> THEN <<>>
    ELSE IF Len(words) = 1 THEN words[1]
    ELSE words[1] \o sep \o join(sep, Tail(words))

\* w in words
In(w, words) == \E i \in 1..Len(words) : words[i] = w

\* words.index(w), 1-based: the position of the first occurrence
index(words, w) ==
    CHOOSE i \in 1..Len(words) :
        /\ words[i] = w
        /\ \A j \in 1..(i - 1) : words[j] # w

\* s[i:] of a list, 1-based
From(words, i) == SubSeq(words, i, Len(words))

(*************************************************************************)
(* Words of the program text.                                            *)
(*************************************************************************)
W_weather == <<"w","e","a","t","h","e","r">>

W_in == <<"i","n">>

W_for == <<"f","o","r">>

W_at == <<"a","t">>

W_of == <<"o","f">>

W_near == <<"n","e","a","r">>

W_around == <<"a","r","o","u","n","d">>

\* Python None for the extracted city; "if city:" is false for None (and
\* for the empty string, which the extractor never builds)
None == <<>>

\* the default of temp_data.get(user_id, "this city")
THIS_CITY == <<"t","h","i","s"," ","c","i","t","y">>

(*************************************************************************)
(* weather(): the city extraction, main.py lines 60-72.                  *)
(*************************************************************************)
prepositions == <<W_in, W_for, W_at, W_of, W_near, W_around>>

\* the scan by position in the message instead of by list order: the split
\* point is the leftmost token that is a preposition
ScanPrepositions_Leftmost(words, k) ==
    LET at == { i \in 1..Len(words) :
                   \E j \in k..Len(prepositions) : prepositions[j] = words[i] }
    IN  IF at = {} THEN None
        ELSE LET first == CHOOSE i \in at : \A j \in at : i <= j
             IN  IF first + 1 <= Len(words)
                 THEN title(join(<<" ">>, From(words, first + 1)))
                 ELSE None

RECURSIVE ScanPrepositions_BreakAlways(_, _)
\* the loop with the break one level out: it stops at the first preposition
\* that occurs, city or not
ScanPrepositions_BreakAlways(words, k) ==
    IF k > Len(prepositions) THEN None
    ELSE LET prep == prepositions[k]
         IN  IF In(prep, words)
             THEN IF index(words, prep) + 1 <= Len(words)
                  THEN title(join(<<" ">>,
                                  From(words, index(words, prep) + 1)))
                  ELSE None
             ELSE ScanPrepositions_BreakAlways(words, k + 1)

RECURSIVE ScanPrepositions(_, _)
\* the for loop over prepositions, from the k-th one on: the loop breaks
\* only when a city was built, otherwise it goes on to the next preposition
ScanPrepositions(words, k) ==
    IF k > Len(prepositions) THEN None
    ELSE LET prep == prepositions[k]
         IN  IF In(prep, words) /\ index(words, prep) + 1 <= Len(words)
             THEN title(join(<<" ">>, From(words, index(words, prep) + 1)))
             ELSE ScanPrepositions(words, k + 1)

\* the extraction without the test for the token "weather"
ExtractCity_AnyText(message_text) ==
    ScanPrepositions(split(lower(message_text)), 1)

ExtractCity(message_text) ==
    LET words == split(lower(message_text))
    IN  IF In(W_weather, words) THEN ScanPrepositions(words, 1) ELSE None


(*************************************************************************)
(* Handler registration, main.py lines 109-113, and the dispatcher's     *)
(* choice among the registered handlers.                                 *)
(*************************************************************************)
\* s[i:i+len(w)] == w, 1-based
OccursAt(s, w, i) ==
    /\ i >= 1
    /\ i + Len(w) - 1 <= Len(s)
    /\ SubSeq(s, i, i + Len(w) - 1) = w

StartsWith(s, w) == OccursAt(s, w, 1)

IsDigit(c) == c \in {"0","1","2","3","4","5","6","7","8","9"}

RECURSIVE CommandName(_, _)
\* the bot_command entity at offset 0 without its "/": the letters, digits
\* and underscores that follow the slash
CommandName(s, i) ==
    IF i <= Len(s) /\ (IsCased(s[i]) \/ IsDigit(s[i]) \/ s[i] = "_")
    THEN <<s[i]>> \o CommandName(s, i + 1)
    ELSE <<>>

\* CommandHandler("start", ...): the text opens with the command /start,
\* compared in lower case
IsStartCommand(text) ==
    /\ Len(text) >= 2
    /\ text[1] = "/"
    /\ lower(CommandName(text, 2)) = <<"s","t","a","r","t">>

P_whats == <<"w","h","a","t","'","s"," ","t","h","e"," ">> \o W_weather

P_todays == <<"t","o","d","a","y","'","s"," ">> \o W_weather

P_hows == <<"h","o","w","'","s"," ","t","h","e"," ">> \o W_weather

P_tell == <<"t","e","l","l"," ","m","e"," ","t","h","e"," ">> \o W_weather

P_give == <<"g","i","v","e"," ","m","e"," ","t","h","e"," ">> \o W_weather

\* filters.Regex of line 110, (?i) and anchored by ^ and $:
\*   .*weather.*(in|for|at|of|near|around) .+   or one of five openings
WeatherPattern(text) ==
    LET t == lower(text)
    IN  \/ \E i \in 1..Len(t) :
              /\ OccursAt(t, W_weather, i)
              /\ \E k \in 1..Len(prepositions) :
                    \E j \in (i + Len(W_weather))..Len(t) :
                        /\ OccursAt(t, prepositions[k] \o <<" ">>, j)
                        /\ j + Len(prepositions[k]) + 1 <= Len(t)
        \/ StartsWith(t, P_whats)
        \/ StartsWith(t, P_todays)
        \/ StartsWith(t, P_hows)
        \/ StartsWith(t, P_tell)
        \/ StartsWith(t, P_give)

\* filters.Regex(r"(?i)^Yes$")
YesPattern(text) == lower(text) = <<"y","e","s">>

\* filters.Regex(r"(?i)^No$")
NoPattern(text) == lower(text) = <<"n","o">>

\* the catch-all handler registered before the pattern handlers
Handlers_CatchAllEarly ==
    <<"start", "unknown", "weather", "fun_fact_response", "no_fun_fact">>

\* the handlers in the order of the add_handler calls
Handlers ==
    <<"start", "weather", "fun_fact_response", "no_fun_fact", "unknown">>

\* the filter each handler was registered with
check_update(h, text) ==
    CASE h = "start" -> IsStartCommand(text)
      [] h = "weather" -> WeatherPattern(text)
      [] h = "fun_fact_response" -> YesPattern(text)
      [] h = "no_fun_fact" -> NoPattern(text)
      [] h = "unknown" -> TRUE

RECURSIVE Dispatch(_, _)
\* the handlers run for one update: the registered handlers are tried in
\* order and the first whose filter accepts the update handles it
Dispatch(hs, text) ==
    IF hs = <<>> THEN <<>>
    ELSE IF check_update(Head(hs), text) THEN <<Head(hs)>>
    ELSE Dispatch(Tail(hs), text)

(*************************************************************************)
(* get_weather(), main.py lines 24-52.  The provider's answer is an      *)
(* input: a transport error, or a status with a body; a JSON body is a   *)
(* function from its keys to its values.                                 *)
(*************************************************************************)
\* the default of the .get(..., "N/A") calls
NA == <<"N","/","A">>

\* dict.get(key, default)
Get(d, key, default) == IF key \in DOMAIN d THEN d[key] ELSE default

\* what get_weather returns to its caller: a value, or an exception
Return(v) == [raised |-> FALSE, value |-> v]

Raise == [raised |-> TRUE, value |-> <<>>]

\* the returned weather_info: Python None is the empty sequence (falsy), a
\* returned dict is the one-element sequence that holds it (truthy)
NoData == <<>>

\* the body of the try block
TryBody(response) ==
    IF response.kind = "exception" THEN Raise
    ELSE IF response.status # 200 THEN Return(NoData)
    ELSE IF response.kind = "notjson" THEN Raise
    ELSE LET data == response.data
         IN  IF "main" \notin DOMAIN data \/ "weather" \notin DOMAIN data
             THEN Return(NoData)
             ELSE IF "wind" \notin DOMAIN data THEN Raise
             ELSE IF data["weather"] = <<>> THEN Raise
             ELSE Return(<<[temperature |-> Get(data["main"], "temp", NA),
                            humidity |-> Get(data["main"], "humidity", NA),
                            wind_speed |-> Get(data["wind"], "speed", NA),
                            condition |->
                                capitalize(Get(data["weather"][1],
                                               "description", NA))]>>)

\* the body without the try/except: an exception reaches the caller
get_weather_NoCatch(response) == TryBody(response)

\* try: ... except Exception: return None
get_weather(response) ==
    IF TryBody(response).raised THEN Return(NoData) ELSE TryBody(response)

(*************************************************************************)
(* The replies.  A reply text is the sequence of the literal pieces and  *)
(* the interpolated values of its f-string (emoji left out).             *)
(*************************************************************************)
Lit(s) == [lit |-> s]

Val(v) == [val |-> v]

GREETING ==
    <<Lit("Hey there! I'm CareCast, your friendly weather assistant. Hope you're having a great day! Just ask me about the weather in any city")>>

Summary(city, info) ==
    <<Lit("Hey there! Here's the latest weather update for "), Val(city),
      Lit(": Temperature: "), Val(info.temperature),
      Lit("C Humidity: "), Val(info.humidity),
      Lit("% Wind Speed: "), Val(info.wind_speed),
      Lit(" km/h Condition: "), Val(info.condition),
      Lit(" Take care, stay hydrated, and have an amazing day ahead!")>>

Prompt(city) ==
    <<Lit("Hey, want to hear a cool fact about "), Val(city),
      Lit("? Just say 'Yes' or 'No'!")>>

Apology(city) ==
    <<Lit("Oh no! I couldn't fetch the weather for "), Val(city),
      Lit(". Maybe try another city? I'm here to help!")>>

CLARIFY ==
    <<Lit("Oops! I couldn't catch the city name. Try something like: 'What's the weather like in Mumbai?'")>>

FunFact(city) ==
    <<Lit("Here's a fun fact about "), Val(city),
      Lit("! Did you know...? (Feature coming soon)")>>

NO_WORRIES ==
    <<Lit("No worries! If you ever need a weather update, just ask! Stay awesome!")>>

UNKNOWN ==
    <<Lit("Hmm... I didn't quite get that! But I'm here for weather updates - just ask!")>>

(*************************************************************************)
(* Inputs: the provider's answers and the users' messages.               *)
(*************************************************************************)
V_temp == <<"2","1",".","5">>

V_humidity == <<"6","0">>

V_speed == <<"3",".","6">>

V_description == <<"c","l","e","a","r"," ","s","k","y">>

FullBody ==
    [main |-> [temp |-> V_temp, humidity |-> V_humidity],
     weather |-> <<[description |-> V_description]>>,
     wind |-> [speed |-> V_speed]]

Bodies ==
    { FullBody,
      [weather |-> <<[description |-> V_description]>>,
       wind |-> [speed |-> V_speed]],
      [main |-> [temp |-> V_temp, humidity |-> V_humidity],
       wind |-> [speed |-> V_speed]],
      [main |-> [temp |-> V_temp, humidity |-> V_humidity],
       weather |-> <<[description |-> V_description]>>],
      [main |-> [humidity |-> V_humidity],
       weather |-> <<[description |-> V_description]>>,
       wind |-> [speed |-> V_speed]],
      [main |-> [temp |-> V_temp, humidity |-> V_humidity],
       weather |-> <<[id |-> <<"8","0","0">>]>>,
       wind |-> [speed |-> V_speed]],
      [main |-> [temp |-> V_temp, humidity |-> V_humidity],
       weather |-> <<>>,
       wind |-> [speed |-> V_speed]],
      [main |-> [temp |-> V_temp, humidity |-> V_humidity],
       weather |-> <<[description |-> V_description]>>,
       wind |-> [deg |-> <<"9","0">>]] }

Responses ==
    { [kind |-> "exception"],
      [kind |-> "notjson", status |-> 200],
      [kind |-> "http", status |-> 404,
       data |-> [cod |-> <<"4","0","4">>]] }
    \cup { [kind |-> "http", status |-> 200, data |-> d] : d \in Bodies }

W_Whats == <<"W","h","a","t","'","s">>

W_the == <<"t","h","e">>

W_New == <<"N","e","w">>

W_Yorkq == <<"Y","o","r","k","?">>

W_oHare == <<"o","'","H","a","r","e">>

W_Chennai == <<"C","h","e","n","n","a","i">>

W_paris == <<"p","a","r","i","s">>

W_france == <<"f","r","a","n","c","e">>

W_sweather == <<"s","w","e","a","t","h","e","r">>

\* a message text: the words separated by sep
Msg(sep, words) == join(sep, words)

SPACE == <<" ">>

\* the messages the users of the bot send
Inbox ==
    { Msg(SPACE, <<<<"/","s","t","a","r","t">>>>),
      Msg(SPACE, <<<<"/","S","T","A","R","T">>, W_weather, W_in, W_paris>>),
      Msg(SPACE, <<W_weather, W_in, W_Chennai>>),
      Msg(SPACE, <<W_Whats, W_the, W_weather, W_in, W_New, W_Yorkq>>),
      Msg(SPACE, <<W_Whats, W_the, W_weather>>),
      Msg(SPACE, <<W_weather, W_near, W_paris, W_in, W_france>>),
      Msg(SPACE, <<W_weather, W_for, W_paris, W_in>>),
      Msg(SPACE, <<W_sweather, W_in, W_paris>>),
      Msg(<<" ", " ">>, <<<<"W","E","A","T","H","E","R">>, <<"I","N">>,
                          <<"C","H","E","N","N","A","I">>>>),
      <<"Y","e","s">>, <<"y","e","s">>, <<"Y","E","S">>,
      <<"N","o">>, <<"n","o">>,
      Msg(SPACE, <<<<"y","e","s">>, <<"p","l","e","a","s","e">>>>),
      <<"h","e","l","l","o">> }

\* the tokens the extractor is exercised on
Vocabulary ==
    { W_in, W_for, W_at, W_of, W_near, W_around, W_New, W_Yorkq, W_oHare }

\* the token sequences of length 0..n over Vocabulary
TokenSeqs(n) == UNION { [1..k -> Vocabulary] : k \in 0..n }

Leads ==
    { <<W_weather>>, <<W_Whats, W_the, W_weather>>, <<W_sweather>> }

\* the messages the weather handler is exercised on: a lead-in phrase and
\* up to MaxTail vocabulary tokens, as far as the dispatcher hands them to
\* the weather handler
WeatherInputs ==
    { m \in { Msg(SPACE, lead \o tail) :
                 lead \in Leads, tail \in TokenSeqs(MaxTail) } :
        Dispatch(Handlers, m) = <<"weather">> }

(*************************************************************************)
(* State.                                                                *)
(*************************************************************************)
VARIABLES
    \* the session map: chat id -> last city (a dict: the domain grows)
    temp_data,
    \* the update being handled, or the last one handled
    run,
    \* history: per user, the city of the latest weather query of that user
    \* that extracted a city, and how its fetch ended
    last,
    \* the handler invocations suspended at an await while another update
    \* is handled (always empty when updates are handled one at a time)
    suspended

vars == <<temp_data, run, last, suspended>>

NoResponse == [kind |-> "none"]

NoRun ==
    [user |-> 0, text |-> <<>>, pc |-> "idle", handlers |-> <<>>,
     city |-> None, replies |-> <<>>, fetched |-> <<>>,
     response |-> NoResponse]

Queued(u, text) == [NoRun EXCEPT !.user = u, !.text = text, !.pc = "queued"]

\* d[k] = v of a dict
Store(d, k, v) ==
    [x \in DOMAIN d \cup {k} |-> IF x = k THEN v ELSE d[x]]

EmptyDict == [x \in {} |-> None]

Init ==
    /\ temp_data = EmptyDict
    /\ run = NoRun
    /\ last = EmptyDict
    /\ suspended = {}

(*************************************************************************)
(* Operations.  Updates are handled one at a time: the application is    *)
(* built without concurrent updates, so the next update is taken only    *)
(* when the handler of the previous one has returned.                    *)
(*************************************************************************)
Finished == run.pc \in {"idle", "done", "crashed"}

\* a message of user u arrives
Receive ==
    \E u \in Users, text \in Inbox :
        /\ Finished
        /\ run' = Queued(u, text)
        /\ UNCHANGED <<temp_data, last, suspended>>

\* the dispatcher hands the queued update to handler h
Routed(h) ==
    /\ run.pc = "queued"
    /\ Dispatch(Handlers, run.text) # <<>>
    /\ Head(Dispatch(Handlers, run.text)) = h

\* one reply_text call, after which the handler returns
ReplyAndReturn(h, reply) ==
    run' = [run EXCEPT !.pc = "done",
                       !.handlers = Append(@, h),
                       !.replies = Append(@, reply)]

\* main.py lines 54-56
start ==
    /\ Routed("start")
    /\ ReplyAndReturn("start", GREETING)
    /\ UNCHANGED <<temp_data, last, suspended>>

\* the handler without the session write of line 77
weather_NoStore ==
    /\ Routed("weather")
    /\ LET user_id == run.user
           city == ExtractCity(run.text)
       IN  IF city # None
           THEN /\ UNCHANGED <<temp_data, suspended>>
                /\ run' = [run EXCEPT !.pc = "fetch",
                                      !.handlers = Append(@, "weather"),
                                      !.city = city,
                                      !.fetched = Append(@, city)]
                /\ last' = Store(last, user_id,
                                 [city |-> city, result |-> "pending"])
           ELSE /\ ReplyAndReturn("weather", CLARIFY)
                /\ UNCHANGED <<temp_data, last, suspended>>

\* the session write moved above the test "if city:": it is done for every
\* message, city or not
weather_StoreAlways ==
    /\ Routed("weather")
    /\ LET user_id == run.user
           city == ExtractCity(run.text)
       IN  /\ temp_data' = Store(temp_data, user_id, city)
           /\ IF city # None
              THEN /\ run' = [run EXCEPT !.pc = "fetch",
                                         !.handlers = Append(@, "weather"),
                                         !.city = city,
                                         !.fetched = Append(@, city)]
                   /\ last' = Store(last, user_id,
                                    [city |-> city, result |-> "pending"])
              ELSE /\ ReplyAndReturn("weather", CLARIFY)
                   /\ UNCHANGED last
    /\ UNCHANGED suspended

\* the handler without the else branch of lines 93-94: a message with no
\* city ends the handler silently
weather_NoClarify ==
    /\ Routed("weather")
    /\ LET user_id == run.user
           city == ExtractCity(run.text)
       IN  IF city # None
           THEN /\ temp_data' = Store(temp_data, user_id, city)
                /\ run' = [run EXCEPT !.pc = "fetch",
                                      !.handlers = Append(@, "weather"),
                                      !.city = city,
                                      !.fetched = Append(@, city)]
                /\ last' = Store(last, user_id,
                                 [city |-> city, result |-> "pending"])
           ELSE /\ run' = [run EXCEPT !.pc = "done",
                                      !.handlers = Append(@, "weather")]
                /\ UNCHANGED <<temp_data, last>>
    /\ UNCHANGED suspended

\* the session write under one key for all users instead of user_id
weather_SharedKey ==
    /\ Routed("weather")
    /\ LET city == ExtractCity(run.text)
       IN  IF city # None
           THEN /\ temp_data' = Store(temp_data, 1, city)
                /\ run' = [run EXCEPT !.pc = "fetch",
                                      !.handlers = Append(@, "weather"),
                                      !.city = city,
                                      !.fetched = Append(@, city)]
                /\ last' = Store(last, run.user,
                                 [city |-> city, result |-> "pending"])
           ELSE /\ ReplyAndReturn("weather", CLARIFY)
                /\ UNCHANGED <<temp_data, last>>
    /\ UNCHANGED suspended

\* main.py lines 74-78 and 93-94, for the city that lines 60-72 extracted:
\* the session write and the call of get_weather, or the clarification
weather_with(city) ==
    LET user_id == run.user
    IN  IF city # None
        THEN /\ temp_data' = Store(temp_data, user_id, city)
             /\ UNCHANGED suspended
             /\ run' = [run EXCEPT !.pc = "fetch",
                                   !.handlers = Append(@, "weather"),
                                   !.city = city,
                                   !.fetched = Append(@, city)]
             /\ last' = Store(last, user_id,
                              [city |-> city, result |-> "pending"])
        ELSE /\ ReplyAndReturn("weather", CLARIFY)
             /\ UNCHANGED <<temp_data, last, suspended>>

\* main.py lines 58-78 and 93-94: up to the call of get_weather, or the
\* clarification when no city was extracted
weather ==
    /\ Routed("weather")
    /\ weather_with(ExtractCity(run.text))

\* the handler with temp_data[user_id] = city once more after line 78: the
\* city of the handler that resumes is written over a newer one
weather_resume_Restore(response) ==
    /\ run.pc = "fetch"
    /\ LET weather_info == get_weather(response)
           city == run.city
       IN  IF weather_info.raised
           THEN /\ run' = [run EXCEPT !.pc = "crashed",
                                      !.response = response]
                /\ last' = [last EXCEPT ![run.user].result = "failed"]
           ELSE IF weather_info.value # NoData
           THEN /\ run' = [run EXCEPT
                             !.pc = "prompt",
                             !.response = response,
                             !.replies =
                                 Append(@, Summary(city,
                                              weather_info.value[1]))]
                /\ last' = [last EXCEPT ![run.user].result = "ok"]
           ELSE /\ run' = [run EXCEPT !.pc = "done",
                                      !.response = response,
                                      !.replies = Append(@, Apology(city))]
                /\ last' = [last EXCEPT ![run.user].result = "failed"]
    /\ temp_data' = Store(temp_data, run.user, run.city)
    /\ UNCHANGED suspended

\* main.py lines 78-92: get_weather has returned response, and the handler
\* replies with the summary (the prompt follows) or with the apology
weather_resume(response) ==
    /\ run.pc = "fetch"
    /\ LET weather_info == get_weather(response)
           city == run.city
       IN  IF weather_info.raised
           THEN /\ run' = [run EXCEPT !.pc = "crashed",
                                      !.response = response]
                /\ last' = [last EXCEPT ![run.user].result = "failed"]
           ELSE IF weather_info.value # NoData
           THEN /\ run' = [run EXCEPT
                             !.pc = "prompt",
                             !.response = response,
                             !.replies =
                                 Append(@, Summary(city,
                                              weather_info.value[1]))]
                /\ last' = [last EXCEPT ![run.user].result = "ok"]
           ELSE /\ run' = [run EXCEPT !.pc = "done",
                                      !.response = response,
                                      !.replies = Append(@, Apology(city))]
                /\ last' = [last EXCEPT ![run.user].result = "failed"]
    /\ UNCHANGED <<temp_data, suspended>>

\* the handler with temp_data.pop(user_id, None) in the else branch of line
\* 91: a failed fetch takes the city back
FetchReturn_Rollback ==
    \E response \in Responses :
        /\ run.pc = "fetch"
        /\ LET weather_info == get_weather(response)
               city == run.city
           IN  IF weather_info.raised
               THEN /\ run' = [run EXCEPT !.pc = "crashed",
                                          !.response = response]
                    /\ last' = [last EXCEPT ![run.user].result = "failed"]
                    /\ UNCHANGED temp_data
               ELSE IF weather_info.value # NoData
               THEN /\ run' = [run EXCEPT
                                 !.pc = "prompt",
                                 !.response = response,
                                 !.replies =
                                     Append(@, Summary(city,
                                                  weather_info.value[1]))]
                    /\ last' = [last EXCEPT ![run.user].result = "ok"]
                    /\ UNCHANGED temp_data
               ELSE /\ run' = [run EXCEPT !.pc = "done",
                                          !.response = response,
                                          !.replies =
                                              Append(@, Apology(city))]
                    /\ last' = [last EXCEPT ![run.user].result = "failed"]
                    /\ temp_data' = [u \in DOMAIN temp_data \ {run.user}
                                        |-> temp_data[u]]
        /\ UNCHANGED suspended

\* the handler with one more get_weather(city) after a fetch that gave
\* None
FetchReturn_Retry ==
    \E response \in Responses :
        /\ run.pc = "fetch"
        /\ LET weather_info == get_weather(response)
               city == run.city
           IN  IF weather_info.raised
               THEN /\ run' = [run EXCEPT !.pc = "crashed",
                                          !.response = response]
                    /\ last' = [last EXCEPT ![run.user].result = "failed"]
                    /\ UNCHANGED temp_data
               ELSE IF weather_info.value # NoData
               THEN /\ run' = [run EXCEPT
                                 !.pc = "prompt",
                                 !.response = response,
                                 !.replies =
                                     Append(@, Summary(city,
                                                  weather_info.value[1]))]
                    /\ last' = [last EXCEPT ![run.user].result = "ok"]
                    /\ UNCHANGED temp_data
               ELSE IF Len(run.fetched) < 2
               THEN /\ run' = [run EXCEPT !.fetched = Append(@, city)]
                    /\ UNCHANGED <<temp_data, last>>
               ELSE /\ run' = [run EXCEPT !.pc = "done",
                                          !.response = response,
                                          !.replies =
                                              Append(@, Apology(city))]
                    /\ last' = [last EXCEPT ![run.user].result = "failed"]
                    /\ UNCHANGED temp_data
        /\ UNCHANGED suspended

\* what a failed fetch knows of its cause: the error body of a non-200
\* answer, else the name of the exception
ErrorDetail(response) ==
    IF response.kind = "http" /\ "cod" \in DOMAIN response.data
    THEN response.data["cod"]
    ELSE <<"E","r","r","o","r">>

\* the handler with the cause of the failure put into the apology
FetchReturn_LeakError ==
    \E response \in Responses :
        /\ run.pc = "fetch"
        /\ LET weather_info == get_weather(response)
               city == run.city
           IN  IF weather_info.raised
               THEN /\ run' = [run EXCEPT !.pc = "crashed",
                                          !.response = response]
                    /\ last' = [last EXCEPT ![run.user].result = "failed"]
                    /\ UNCHANGED temp_data
               ELSE IF weather_info.value # NoData
               THEN /\ run' = [run EXCEPT
                                 !.pc = "prompt",
                                 !.response = response,
                                 !.replies =
                                     Append(@, Summary(city,
                                                  weather_info.value[1]))]
                    /\ last' = [last EXCEPT ![run.user].result = "ok"]
                    /\ UNCHANGED temp_data
               ELSE /\ run' = [run EXCEPT
                                 !.pc = "done",
                                 !.response = response,
                                 !.replies =
                                     Append(@, Apology(city)
                                               \o <<Val(ErrorDetail(response))>>)]
                    /\ last' = [last EXCEPT ![run.user].result = "failed"]
                    /\ UNCHANGED temp_data
        /\ UNCHANGED suspended

\* main.py line 78: the awaited get_weather returns one of Responses
FetchReturn == \E response \in Responses : weather_resume(response)

\* the prompt with the city read from the session at the time of sending
SendPrompt_FromSession ==
    /\ run.pc = "prompt"
    /\ run' = [run EXCEPT !.pc = "done",
                          !.replies =
                              Append(@, Prompt(Get(temp_data, run.user,
                                                   THIS_CITY)))]
    /\ UNCHANGED <<temp_data, last, suspended>>

\* main.py line 90: the second reply of a successful query
SendPrompt ==
    /\ run.pc = "prompt"
    /\ run' = [run EXCEPT !.pc = "done",
                          !.replies = Append(@, Prompt(run.city))]
    /\ UNCHANGED <<temp_data, last, suspended>>

\* the reply with the placeholder whatever the session holds
fun_fact_response_Placeholder ==
    /\ Routed("fun_fact_response")
    /\ ReplyAndReturn("fun_fact_response", FunFact(THIS_CITY))
    /\ UNCHANGED <<temp_data, last, suspended>>

\* temp_data[user_id] instead of temp_data.get(user_id, "this city"): a
\* KeyError ends the handler when the user has no entry
fun_fact_response_KeyError ==
    /\ Routed("fun_fact_response")
    /\ LET user_id == run.user
       IN  IF user_id \in DOMAIN temp_data
           THEN ReplyAndReturn("fun_fact_response",
                               FunFact(temp_data[user_id]))
           ELSE run' = [run EXCEPT !.pc = "crashed",
                                   !.handlers =
                                       Append(@, "fun_fact_response")]
    /\ UNCHANGED <<temp_data, last, suspended>>

\* temp_data.setdefault(user_id, "this city") instead of temp_data.get:
\* reading creates the entry
fun_fact_response_SetDefault ==
    /\ Routed("fun_fact_response")
    /\ LET user_id == run.user
           city == Get(temp_data, user_id, THIS_CITY)
       IN  /\ ReplyAndReturn("fun_fact_response", FunFact(city))
           /\ temp_data' = Store(temp_data, user_id, city)
    /\ UNCHANGED <<last, suspended>>

\* main.py lines 96-99
fun_fact_response ==
    /\ Routed("fun_fact_response")
    /\ LET user_id == run.user
           city == Get(temp_data, user_id, THIS_CITY)
       IN  ReplyAndReturn("fun_fact_response", FunFact(city))
    /\ UNCHANGED <<temp_data, last, suspended>>

\* main.py lines 101-102
no_fun_fact ==
    /\ Routed("no_fun_fact")
    /\ ReplyAndReturn("no_fun_fact", NO_WORRIES)
    /\ UNCHANGED <<temp_data, last, suspended>>

\* main.py lines 104-106
unknown ==
    /\ Routed("unknown")
    /\ ReplyAndReturn("unknown", UNKNOWN)
    /\ UNCHANGED <<temp_data, last, suspended>>

Next ==
    \/ Receive
    \/ start
    \/ weather
    \/ FetchReturn
    \/ SendPrompt
    \/ fun_fact_response
    \/ no_fun_fact
    \/ unknown

\* the bot: any user sends any message of Inbox, one update at a time
Spec == Init /\ [][Next]_vars

\* the handler the dispatcher chooses and the city the extractor finds,
\* tabulated over the messages of Inbox
handler_of == [text \in Inbox |-> Head(Dispatch(Handlers, text))]

city_of == [text \in Inbox |-> ExtractCity(text)]

\* a step of the handler of the current update: the steps start, weather,
\* fun_fact_response, no_fun_fact and unknown with the routing and the
\* extraction looked up in the tables, and the two later steps of weather
Handle ==
    \/ /\ run.pc = "queued"
       /\ LET h == handler_of[run.text]
          IN  \/ /\ h = "start"
                 /\ ReplyAndReturn(h, GREETING)
                 /\ UNCHANGED <<temp_data, last, suspended>>
              \/ /\ h = "weather"
                 /\ weather_with(city_of[run.text])
              \/ /\ h = "fun_fact_response"
                 /\ ReplyAndReturn(h, FunFact(Get(temp_data, run.user,
                                                  THIS_CITY)))
                 /\ UNCHANGED <<temp_data, last, suspended>>
              \/ /\ h = "no_fun_fact"
                 /\ ReplyAndReturn(h, NO_WORRIES)
                 /\ UNCHANGED <<temp_data, last, suspended>>
              \/ /\ h = "unknown"
                 /\ ReplyAndReturn(h, UNKNOWN)
                 /\ UNCHANGED <<temp_data, last, suspended>>
    \/ FetchReturn
    \/ SendPrompt

\* app.run_polling() (main.py line 116) drives the handler coroutine of a
\* received update until it returns, and the awaited get_weather returns
\* some outcome: a handler step that stays possible is taken.  Nothing
\* obliges a user to send a message.
SpecLive == Init /\ [][Next]_vars /\ WF_vars(Handle)

(*************************************************************************)
(* Overlapping handlers.  The handlers are coroutines: weather is        *)
(* suspended while it awaits get_weather (main.py line 78) and between   *)
(* its two replies (lines 80-90).  Under a dispatcher that takes the     *)
(* next update while a handler is suspended, the steps of the handlers   *)
(* interleave at these points; run is the handler that holds the event   *)
(* loop and suspended holds the handlers that wait.                      *)
(*************************************************************************)
MaxSuspended == 1

\* two queries with different cities, and the follow-up
OverlapInbox ==
    { Msg(SPACE, <<W_weather, W_in, W_Chennai>>),
      Msg(SPACE, <<W_Whats, W_the, W_weather, W_in, W_New, W_Yorkq>>),
      <<"Y","e","s">> }

\* a fetch that fails and a fetch that succeeds
OverlapResponses ==
    { [kind |-> "exception"],
      [kind |-> "http", status |-> 200, data |-> FullBody] }

\* the handler is at an await it can be suspended at
Suspendable == run.pc \in {"fetch", "prompt"}

\* a message of user u arrives; a handler that is suspended stays so
ReceiveOverlap ==
    \E u \in Users, text \in OverlapInbox :
        /\ \/ /\ Finished
              /\ UNCHANGED suspended
           \/ /\ Suspendable
              /\ Cardinality(suspended) < MaxSuspended
              /\ suspended' = suspended \cup {run}
        /\ run' = Queued(u, text)
        /\ UNCHANGED <<temp_data, last>>

\* the event loop goes on with a suspended handler
Resume ==
    \E s \in suspended :
        /\ \/ /\ Finished
              /\ suspended' = suspended \ {s}
           \/ /\ Suspendable
              /\ suspended' = (suspended \ {s}) \cup {run}
        /\ run' = s
        /\ UNCHANGED <<temp_data, last>>

FetchReturnOverlap ==
    \E response \in OverlapResponses : weather_resume(response)

NextOverlap ==
    \/ ReceiveOverlap
    \/ Resume
    \/ weather
    \/ FetchReturnOverlap
    \/ SendPrompt
    \/ fun_fact_response

SpecOverlap == Init /\ [][NextOverlap]_vars

(*************************************************************************)
(* The extraction step of the weather handler alone (main.py lines       *)
(* 58-78 and 93-94), applied to one update of WeatherInputs.             *)
(*************************************************************************)
InitExtract ==
    /\ temp_data = EmptyDict
    /\ \E u \in Users, text \in WeatherInputs : run = Queued(u, text)
    /\ last = EmptyDict
    /\ suspended = {}

NextExtract == weather

SpecExtract == InitExtract /\ [][NextExtract]_vars

(*************************************************************************)
(* Vocabulary of the properties.                                         *)
(*************************************************************************)
\* the update was handed to handler h, which has run at least its first part
HandledBy(h) == run.pc \notin {"idle", "queued"} /\ run.handlers = <<h>>

\* the tokens of the handled message, lowercase-normalised
Words == split(lower(run.text))

\* the reply text names value v: one of its interpolated values is v
Contains(reply, v) == \E i \in 1..Len(reply) : reply[i] = Val(v)

\* the fixed priority list of the extractor's contract
PriorityList == <<W_in, W_for, W_at, W_of, W_near, W_around>>

IsPreposition(w) == \E k \in 1..Len(PriorityList) : PriorityList[k] = w

\* the list positions of the prepositions that occur in words
Present(words) == { k \in 1..Len(PriorityList) : In(PriorityList[k], words) }

\* ... and of those whose first occurrence has a token after it
Usable(words) ==
    { k \in Present(words) : index(words, PriorityList[k]) < Len(words) }

Min(S) == CHOOSE x \in S : \A y \in S : x <= y

\* city is Title-Case(X): the tokens of X in order, joined by single
\* spaces, letter case apart, each with its first letter in upper case
TitleCased(city, X) ==
    /\ city # None
    /\ LET cw == split(city)
       IN  /\ Len(cw) = Len(X)
           /\ city = join(SPACE, cw)
           /\ \A i \in 1..Len(X) :
                 /\ lower(cw[i]) = lower(X[i])
                 /\ cw[i][1] = ToUpper(X[i][1])

(*************************************************************************)
(* C1.  For the message "What's the weather in New York?" the city the   *)
(* weather handler extracts is exactly "New York" (title-cased, nothing  *)
(* such as the trailing "?" attached).  The code keeps the "?".          *)
(*************************************************************************)
NewYorkQuestion ==
    Msg(SPACE, <<W_Whats, W_the, W_weather, W_in, W_New, W_Yorkq>>)

C1_ExactNewYork ==
    (HandledBy("weather") /\ run.text = NewYorkQuestion)
        => run.city = <<"N","e","w"," ","Y","o","r","k">>

(*************************************************************************)
(* C2.  For every preposition p and every non-empty token sequence X,    *)
(* the message "weather p X" yields the city Title-Case(X).              *)
(*************************************************************************)
\* the handled message is "weather p X", p the k-th preposition, X non-empty
WeatherPX(k) ==
    LET w == split(run.text)
    IN  /\ HandledBy("weather")
        /\ run.text = Msg(SPACE, w)
        /\ Len(w) >= 3
        /\ w[1] = W_weather
        /\ w[2] = PriorityList[k]

TokensX == From(split(run.text), 3)

\* the claim as stated, for all X
C2_AllX ==
    \A k \in 1..Len(PriorityList) :
        WeatherPX(k) => TitleCased(run.city, TokensX)

\* X holds no preposition listed before p, except possibly as its last token
NoEarlierListed(k, X) ==
    \A i \in 1..(Len(X) - 1) :
        \A j \in 1..(k - 1) : lower(X[i]) # PriorityList[j]

\* C2 as amended: "weather p X" yields Title-Case(X) provided no token of
\* X other than its last is a preposition listed before p
C2_TitleCaseOfX ==
    \A k \in 1..Len(PriorityList) :
        (WeatherPX(k) /\ NoEarlierListed(k, TokensX))
            => TitleCased(run.city, TokensX)

\* a handled "weather p X" whose X holds prepositions and is the city
C2_Witness ==
    \E k \in 1..Len(PriorityList) :
        /\ WeatherPX(k)
        /\ NoEarlierListed(k, TokensX)
        /\ Len(TokensX) >= 2
        /\ \E i \in 1..Len(TokensX) : IsPreposition(TokensX[i])
        /\ \E i \in 1..Len(TokensX) : ~IsPreposition(TokensX[i])
        /\ TitleCased(run.city, TokensX)

(*************************************************************************)
(* C3.  With the token "weather" and two or more preposition tokens, the *)
(* split point is the first occurrence of the preposition that comes     *)
(* earliest in the priority list, wherever the prepositions sit.         *)
(*************************************************************************)
PrepositionTokens(words) ==
    Cardinality({ i \in 1..Len(words) : IsPreposition(words[i]) })

\* the city is made of the tokens after the first occurrence of the k-th
\* preposition (no city when there are none)
SplitAfter(words, k) ==
    lower(run.city) =
        join(SPACE, From(words, index(words, PriorityList[k]) + 1))

C5_NoWeatherTokenNoCity ==
    (HandledBy("weather") /\ ~In(W_weather, Words))
        => /\ run.city = None
           /\ run.pc = "done"
           /\ run.replies = <<CLARIFY>>
           /\ run.fetched = <<>>
           /\ temp_data = EmptyDict

\* "sweather in ..." reached the weather handler with words after "in"
C5_Witness ==
    /\ HandledBy("weather")
    /\ ~In(W_weather, Words)
    /\ Usable(Words) # {}
    /\ run.replies = <<CLARIFY>>

(*************************************************************************)
(* C6.  After a weather query of a user that extracted city C, the reply *)
(* to that user's next "yes" and the reply to the next "no" both contain *)
(* C; with no session entry both contain the placeholder "this city".    *)
(*************************************************************************)
\* the city a follow-up of the user is expected to name
ExpectedCity ==
    IF run.user \in DOMAIN last THEN last[run.user].city ELSE THIS_CITY

\* the claim as stated, for "yes" and for "no"
C6_YesAndNoNameCity ==
    (run.pc = "done"
        /\ (HandledBy("fun_fact_response") \/ HandledBy("no_fun_fact")))
        => /\ Len(run.replies) = 1
           /\ Contains(run.replies[1], ExpectedCity)

\* C6 as amended: the reply to "yes" contains C, or the placeholder when
\* the user has no session entry; the reply to "no" is a fixed text that
\* names no city
C6_YesNamesCity ==
    /\ (run.pc = "done" /\ HandledBy("fun_fact_response"))
          => /\ Len(run.replies) = 1
             /\ Contains(run.replies[1], ExpectedCity)
             /\ run.user \notin DOMAIN temp_data
                   => Contains(run.replies[1], THIS_CITY)
    /\ (run.pc = "done" /\ HandledBy("no_fun_fact"))
          => /\ Len(run.replies) = 1
             /\ \A i \in 1..Len(run.replies[1]) :
                   "val" \notin DOMAIN run.replies[1][i]

\* a "yes" of a user whose earlier weather query extracted a city
C6_Witness ==
    /\ run.pc = "done"
    /\ HandledBy("fun_fact_response")
    /\ run.user \in DOMAIN last
    /\ Contains(run.replies[1], last[run.user].city)

(*************************************************************************)
(* C7.  A fetch failure (exception, non-200 status, body without a       *)
(* required top-level field) never leaves the weather handler as an      *)
(* error: the handler returns and has sent exactly one reply, the        *)
(* apology naming the city.                                              *)
(*************************************************************************)
FetchFailure(response) ==
    \/ response.kind \in {"exception", "notjson"}
    \/ /\ response.kind = "http"
       /\ \/ response.status # 200
          \/ "main" \notin DOMAIN response.data
          \/ "weather" \notin DOMAIN response.data

C7_FailureOneApology ==
    /\ run.pc # "crashed"
    /\ (HandledBy("weather") /\ FetchFailure(run.response))
          => /\ run.pc = "done"
             /\ run.replies = <<Apology(ExtractCity(run.text))>>

\* the fetch raised and the handler has answered with the apology
C7_Witness ==
    /\ HandledBy("weather")
    /\ run.response.kind = "exception"
    /\ run.pc = "done"
    /\ Len(run.replies) = 1
    /\ Contains(run.replies[1], run.city)

(*************************************************************************)
(* C8.  A weather query of user U with city C whose fetch succeeds:      *)
(* C is stored for U, fetch is called once, and exactly two replies are  *)
(* sent, the summary and then the yes/no prompt, both containing C; a    *)
(* following "Yes" of U (no other query of U in between) is answered     *)
(* with a reply containing C.                                            *)
(*************************************************************************)
\* the latest weather query of the user of this update fetched with success
LastQueryOk ==
    /\ run.user \in DOMAIN last
    /\ last[run.user].result = "ok"

C8_SuccessThenYes ==
    /\ (HandledBy("weather") /\ run.response # NoResponse /\ LastQueryOk)
          => LET C == ExtractCity(run.text)
                 summary == Summary(C, get_weather(run.response).value[1])
             IN  /\ C # None
                 /\ run.user \in DOMAIN temp_data
                 /\ temp_data[run.user] = C
                 /\ run.fetched = <<C>>
                 /\ Contains(summary, C)
                 /\ Contains(Prompt(C), C)
                 /\ run.replies = IF run.pc = "prompt" THEN <<summary>>
                                  ELSE <<summary, Prompt(C)>>
    /\ (HandledBy("fun_fact_response") /\ LastQueryOk)
          => /\ run.pc = "done"
             /\ Len(run.replies) = 1
             /\ Contains(run.replies[1], last[run.user].city)

\* the "yes" that follows a successful query
C8_Witness ==
    /\ HandledBy("fun_fact_response")
    /\ LastQueryOk
    /\ run.pc = "done"
    /\ run.replies = <<FunFact(last[run.user].city)>>

(*************************************************************************)
(* C9.  A user with no session entry who sends "yes" in any letter case  *)
(* gets exactly one reply, which contains the placeholder "this city";   *)
(* no error is raised and the user still has no session entry.           *)
(*************************************************************************)
C9_YesWithoutSession ==
    [][ (/\ run.pc = "queued"
         /\ lower(run.text) = <<"y","e","s">>
         /\ run.user \notin DOMAIN temp_data)
        => (/\ run'.pc = "done"
            /\ run'.user = run.user
            /\ Len(run'.replies) = 1
            /\ Contains(run'.replies[1], THIS_CITY)
            /\ run.user \notin DOMAIN temp_data') ]_vars

\* "YES" of a user without an entry, while another user has one
C9_Witness ==
    /\ HandledBy("fun_fact_response")
    /\ run.text = <<"Y","E","S">>
    /\ run.user \notin DOMAIN temp_data
    /\ temp_data # EmptyDict
    /\ run.pc = "done"
    /\ run.replies = <<FunFact(THIS_CITY)>>

(*************************************************************************)
(* C10.  Every message is handled by exactly one handler, the first rule *)
(* that matches, case-insensitively, in the order: start command,        *)
(* weather phrasing, whole message "yes", whole message "no", otherwise  *)
(* unrecognized.                                                         *)
(*************************************************************************)
FirstRule(text) ==
    IF IsStartCommand(text) THEN "start"
    ELSE IF WeatherPattern(text) THEN "weather"
    ELSE IF lower(text) = <<"y","e","s">> THEN "fun_fact_response"
    ELSE IF lower(text) = <<"n","o">> THEN "no_fun_fact"
    ELSE "unknown"

C10_ExactlyOneHandler ==
    /\ run.pc = "queued" => Dispatch(Handlers, run.text) = <<FirstRule(run.text)>>
    /\ run.pc \notin {"idle", "queued"} => run.handlers = <<FirstRule(run.text)>>

\* a message that is a start command and has the weather phrasing went to
\* the start handler alone
C10_Witness ==
    /\ HandledBy("start")
    /\ WeatherPattern(run.text)
    /\ run.pc = "done"
    /\ run.replies = <<GREETING>>

(*************************************************************************)
(* C11.  The session map changes, and get_weather is called, only in the *)
(* weather handler on a message from which a city was extracted; the     *)
(* clarification path and the yes, no, start and unrecognized handlers   *)
(* leave the whole session map unchanged and make no fetch call.         *)
(*************************************************************************)
\* this step calls get_weather
FetchCalled == Len(run'.fetched) > Len(run.fetched)

\* the queued update is a weather message from which a city is extracted
CityQuery ==
    /\ run.pc = "queued"
    /\ FirstRule(run.text) = "weather"
    /\ ExtractCity(run.text) # None

C11_WriteAndFetchOnlyWithCity ==
    [][ /\ (temp_data' # temp_data \/ FetchCalled)
            => (CityQuery /\ run'.handlers = <<"weather">>)
        /\ (run.pc = "queued" /\ ~CityQuery)
            => (temp_data' = temp_data /\ run'.fetched = <<>>) ]_vars

\* a clarification sent to a user who has a session entry
C11_Witness ==
    /\ HandledBy("weather")
    /\ ExtractCity(run.text) = None
    /\ run.fetched = <<>>
    /\ run.user \in DOMAIN temp_data
    /\ run.pc = "done"

(*************************************************************************)
(* C12.  For every provider answer with status 200 that holds the main   *)
(* block and the weather block, the fetch succeeds and each of the four  *)
(* summary fields is the provider's value when present and the           *)
(* "unavailable" sentinel when missing, independently of the others; a   *)
(* missing field (the wind data included) never makes the fetch fail.    *)
(* The code fails the fetch when the wind block is missing.              *)
(*************************************************************************)
\* the provider's value of key in block, or the sentinel
Provided(data, block, key) ==
    IF block \in DOMAIN data /\ key \in DOMAIN data[block]
    THEN data[block][key]
    ELSE NA

ProvidedDescription(data) ==
    IF "description" \in DOMAIN data["weather"][1]
    THEN data["weather"][1]["description"]
    ELSE NA

\* the answer has status 200, the main block and a weather entry
CompleteAnswer(response) ==
    /\ response.kind = "http"
    /\ response.status = 200
    /\ "main" \in DOMAIN response.data
    /\ "weather" \in DOMAIN response.data
    /\ response.data["weather"] # <<>>

\* the interpolated value at position i of a reply text
ValueAt(reply, i) == IF "val" \in DOMAIN reply[i] THEN reply[i].val ELSE <<>>

C12_FieldsIndependent ==
    (HandledBy("weather") /\ CompleteAnswer(run.response))
        => /\ run.pc \in {"prompt", "done"}
           /\ Len(run.replies) >= 1
           /\ LET summary == run.replies[1]
                  data == run.response.data
              IN  /\ Len(summary) = 11
                  /\ ValueAt(summary, 4) = Provided(data, "main", "temp")
                  /\ ValueAt(summary, 6) = Provided(data, "main", "humidity")
                  /\ ValueAt(summary, 8) = Provided(data, "wind", "speed")
                  /\ lower(ValueAt(summary, 10))
                        = lower(ProvidedDescription(data))

(*************************************************************************)
(* C13.  In every reachable state a session entry exists for a user only *)
(* if that user has already had at least one successful weather query;   *)
(* a user who has had none has no entry and reads as "this city".        *)
(*************************************************************************)
\* the claim as stated: when the entry of a user comes into being, a
\* weather query of that user has succeeded
C13_EntryOnlyAfterSuccess ==
    [][ \A u \in Users :
           (u \notin DOMAIN temp_data /\ u \in DOMAIN temp_data')
               => (u \in DOMAIN last' /\ last'[u].result = "ok") ]_vars

\* C13 as amended: a session entry exists for a user exactly when that
\* user has already sent a weather query from which a city was extracted,
\* whether or not its fetch has returned or succeeded; a user who has sent
\* none has no entry, and that user's "yes" is answered with "this city"
C13_EntryIffCityExtracted ==
    /\ \A u \in Users :
          /\ u \in DOMAIN temp_data <=> u \in DOMAIN last
          /\ u \in DOMAIN temp_data => temp_data[u] # None
    /\ (HandledBy("fun_fact_response") /\ run.user \notin DOMAIN last)
          => run.replies = <<FunFact(THIS_CITY)>>

\* one user has an entry from a query whose fetch failed, another user
\* without any query reads the placeholder
C13_Witness ==
    /\ HandledBy("fun_fact_response")
    /\ run.user \notin DOMAIN temp_data
    /\ Contains(run.replies[1], THIS_CITY)
    /\ \E u \in DOMAIN temp_data : last[u].result = "failed"

(*************************************************************************)
(* C14.  Every inbound message eventually receives at least one reply,   *)
(* on every path (greeting, clarification, summary, fetch failure, yes,  *)
(* no, unrecognized), provided get_weather returns some outcome; no      *)
(* handler is finished with zero replies sent.                           *)
(*************************************************************************)
Replied == Len(run.replies) >= 1

C14_EveryMessageReplied ==
    /\ [](run.pc \notin {"idle", "queued", "fetch"} => Replied)
    /\ (run.pc = "queued") ~> (run.pc = "done" /\ Replied)

\* the longest path: the summary and the prompt were both sent
C14_Witness ==
    /\ HandledBy("weather")
    /\ run.pc = "done"
    /\ Len(run.replies) = 2
    /\ run.replies[2] = Prompt(ExtractCity(run.text))

(*************************************************************************)
(* C16.  The session write for the user happens before get_weather is    *)
(* called and is never rolled back: while the fetch for city C is in     *)
(* flight the user's entry is already C, after the fetch for C fails it  *)
(* is still C, and a following "Yes" of that user (no other query in     *)
(* between) is answered with C although no weather was shown for C.      *)
(*************************************************************************)
LastQueryFailed ==
    /\ run.user \in DOMAIN last
    /\ last[run.user].result = "failed"

SessionCity(u) == IF u \in DOMAIN temp_data THEN temp_data[u] ELSE None

C16_WriteBeforeFetchNoRollback ==
    /\ run.pc = "fetch"
          => /\ run.city # None
             /\ run.city = ExtractCity(run.text)
             /\ SessionCity(run.user) = run.city
    /\ (HandledBy("weather") /\ run.response # NoResponse /\ LastQueryFailed)
          => /\ run.replies = <<Apology(run.city)>>
             /\ SessionCity(run.user) = run.city
    /\ (HandledBy("fun_fact_response") /\ LastQueryFailed)
          => /\ SessionCity(run.user) = last[run.user].city
             /\ run.replies = <<FunFact(last[run.user].city)>>

\* "Yes" after a failed fetch: the fun fact names the city no weather was
\* shown for
C16_Witness ==
    /\ HandledBy("fun_fact_response")
    /\ LastQueryFailed
    /\ run.pc = "done"
    /\ Contains(run.replies[1], last[run.user].city)
    /\ last[run.user].city # THIS_CITY

(*************************************************************************)
(* C18.  A weather message from which a city was extracted causes        *)
(* exactly one call of get_weather, whatever the outcome; after a failed *)
(* fetch there is no second call for that message, and a message with no *)
(* extracted city causes no call.                                        *)
(*************************************************************************)
\* the handler of the message is past line 78
PastFetchCall == run.pc \in {"fetch", "prompt", "done", "crashed"}

C18_ExactlyOneFetch ==
    /\ (HandledBy("weather") /\ PastFetchCall
            /\ ExtractCity(run.text) # None)
          => run.fetched = <<ExtractCity(run.text)>>
    /\ (HandledBy("weather") /\ ExtractCity(run.text) = None)
          => run.fetched = <<>>
    /\ ~HandledBy("weather") => run.fetched = <<>>

\* a non-200 answer: the apology was sent after the one call
C18_Witness ==
    /\ HandledBy("weather")
    /\ run.pc = "done"
    /\ run.response.kind = "http"
    /\ run.response.status # 200
    /\ Len(run.fetched) = 1
    /\ run.replies = <<Apology(run.city)>>

(*************************************************************************)
(* C19.  The reply after a failed fetch depends only on the city: runs   *)
(* of the weather handler on the same message that fail for different    *)
(* reasons (exception, non-200 status with any error body, payload       *)
(* without a required field) send the identical apology, and no part of  *)
(* the error detail appears in a reply.                                  *)
(*************************************************************************)
\* get_weather gave None for the answer of the provider
Failed(response) ==
    /\ response # NoResponse
    /\ get_weather(response).value = NoData

\* the interpolated values of a reply text
Values(reply) ==
    { reply[i].val : i \in { j \in 1..Len(reply) : "val" \in DOMAIN reply[j] } }

\* the reply the handler sends for message text when its fetch fails with
\* response
FailureReply(text, response) ==
    IF get_weather(response).value = NoData
    THEN Apology(ExtractCity(text))
    ELSE <<>>

C19_ApologyDependsOnCityOnly ==
    (HandledBy("weather") /\ Failed(run.response))
        => /\ Len(run.replies) = 1
           /\ Values(run.replies[1]) = {ExtractCity(run.text)}
           /\ \A other \in Responses :
                 Failed(other)
                     => run.replies[1] = FailureReply(run.text, other)

\* a 200 answer whose payload lacks a required field
C19_Witness ==
    /\ HandledBy("weather")
    /\ run.response.kind = "http"
    /\ run.response.status = 200
    /\ "main" \notin DOMAIN run.response.data
    /\ run.pc = "done"
    /\ Values(run.replies[1]) = {run.city}

(*************************************************************************)
(* C15.  Under any interleaving of handlers of different users, also     *)
(* while one user's fetch is suspended, a handler running for user A     *)
(* never adds, changes or removes the session entry of another user B,   *)
(* and a reply sent to B never contains a city taken from A's entry.     *)
(*************************************************************************)
\* the step leaves the session entry of user b as it is
EntryUntouched(b) ==
    /\ b \in DOMAIN temp_data' <=> b \in DOMAIN temp_data
    /\ b \in DOMAIN temp_data => temp_data'[b] = temp_data[b]

\* the step is a step of the handler that holds the event loop, and it
\* sends a reply
SendsReply ==
    /\ run'.user = run.user
    /\ run'.text = run.text
    /\ Len(run'.replies) = Len(run.replies) + 1

SentReply == run'.replies[Len(run'.replies)]

\* the city a reply names: the first interpolated value of its text
CityNamed(reply) ==
    IF Len(reply) >= 2 /\ "val" \in DOMAIN reply[2]
    THEN {reply[2].val}
    ELSE {}

\* the cities user b's own conversation gives: the city of the message
\* that is answered, b's session entry, the placeholder
OwnCities(b, text) ==
    {ExtractCity(text), THIS_CITY}
        \cup (IF b \in DOMAIN temp_data THEN {temp_data[b]} ELSE {})

C15_UsersDoNotContend ==
    [][ /\ \A b \in Users : b # run.user => EntryUntouched(b)
        /\ SendsReply
              => CityNamed(SentReply) \subseteq OwnCities(run.user, run.text)
      ]_vars

\* user B is answered with B's city while the fetch of user A, whose
\* entry holds another city, is suspended
C15_Witness ==
    /\ run.pc = "done"
    /\ Len(run.replies) >= 1
    /\ \E s \in suspended :
          /\ s.user # run.user
          /\ s.pc = "fetch"
          /\ s.user \in DOMAIN temp_data
          /\ run.user \in DOMAIN temp_data
          /\ temp_data[s.user] # temp_data[run.user]
          /\ CityNamed(run.replies[Len(run.replies)])
                = {temp_data[run.user]}

(*************************************************************************)
(* C17.  Two overlapping weather queries of one user with cities C1      *)
(* (handler started first) and C2 (started second): once both handlers   *)
(* have finished the session city is C2, in every order in which the     *)
(* fetches complete and whatever their outcomes; in general the stored   *)
(* city is the city of the most recently started query of that user that *)
(* extracted a city.                                                     *)
(*************************************************************************)
C17_LastStartedWins ==
    \A u \in Users :
        /\ u \in DOMAIN last
              => /\ u \in DOMAIN temp_data
                 /\ temp_data[u] = last[u].city
        /\ u \notin DOMAIN last => u \notin DOMAIN temp_data

\* the query started first finishes last, its city is not the stored one
C17_Witness ==
    /\ HandledBy("weather")
    /\ run.pc = "done"
    /\ suspended = {}
    /\ run.city # None
    /\ run.user \in DOMAIN temp_data
    /\ temp_data[run.user] # run.city
    /\ temp_data[run.user] = last[run.user].city

(*************************************************************************)
(* C20.  Every reply the weather handler sends for a message (summary,   *)
(* prompt or apology) names the city extracted from that same message,   *)
(* under every interleaving: when another query of the same user         *)
(* overwrites the session entry while the first fetch is suspended, the  *)
(* first handler's replies still name its own city.  Only the reply to   *)
(* "yes" reads the session entry.                                        *)
(*************************************************************************)
\* the replies of handler run r name the city of r's own message
NamesOwnCity(r) ==
    r.handlers = <<"weather">> /\ r.city # None
        => /\ r.city = ExtractCity(r.text)
           /\ \A i \in 1..Len(r.replies) :
                 /\ CityNamed(r.replies[i]) = {r.city}
                 /\ \/ r.replies[i] = Apology(r.city)
                    \/ r.replies[i] = Prompt(r.city)
                    \/ /\ r.response # NoResponse
                       /\ get_weather(r.response).value # NoData
                       /\ r.replies[i]
                             = Summary(r.city,
                                       get_weather(r.response).value[1])

C20_RepliesNameOwnCity ==
    /\ NamesOwnCity(run)
    /\ \A s \in suspended : NamesOwnCity(s)
    /\ (HandledBy("fun_fact_response") /\ run.pc = "done")
          => \/ /\ run.user \in DOMAIN temp_data
                /\ run.replies = <<FunFact(temp_data[run.user])>>
             \/ /\ run.user \notin DOMAIN temp_data
                /\ run.replies = <<FunFact(THIS_CITY)>>

\* both replies of the first query were sent after a newer query of the
\* same user replaced the session city
C20_Witness ==
    /\ HandledBy("weather")
    /\ run.pc = "done"
    /\ Len(run.replies) = 2
    /\ run.user \in DOMAIN temp_data
    /\ temp_data[run.user] # run.city
    /\ CityNamed(run.replies[1]) = {run.city}
    /\ CityNamed(run.replies[2]) = {run.city}

=============================================================================
